---------------------------- MODULE Spec2Model ----------------------------
(***************************************************************************)
(* The prediction pipeline of the LeafDoctor backend (backend/main.py):    *)
(* startup loading of the classifier, the /predict handler with its plant  *)
(* guard, temperature recalibration, top-3 ranking, policy cascade, advice *)
(* generation and optional persistence to the diagnoses CSV.               *)
(*                                                                         *)
(* Text (labels, advice, replies of the generative service) is a sequence  *)
(* of one-character strings, so that strip(), lower(), upper(), replace()  *)
(* and the substring tests are computed and not assumed.                   *)
(* Scores are fixed-point numbers in units of 1/Scale.                     *)
(***************************************************************************)
EXTENDS Integers, Sequences, FiniteSets, TLC

\* ------------------------------------------------------------------ bounds

\* Number of catalog entries the classifier scores (a prefix of CLASS_LABELS).
NumClasses == 4

\* The classifier's raw outputs are multiples of 1/RawTotal summing to 1.
RawTotal == 7

\* Longest reply of the plant guard's text generator.
MaxGuardLen == 3

\* Longest reply of the advice generator.
MaxAdviceLen == 3

\* Number of uploads saved in one run of the garden.
MaxSaves == 2

\* Number of rows of schedules.csv.
MaxSchedules == 2

\* ----------------------------------------------------------------- strings

\* "Apple___Apple_scab"
Label1 ==
    << "A", "p", "p", "l", "e", "_", "_", "_", "A", "p", "p", "l", "e", "_", "s", "c", "a",
       "b" >>

\* "Apple___Black_rot"
Label2 ==
    << "A", "p", "p", "l", "e", "_", "_", "_", "B", "l", "a", "c", "k", "_", "r", "o", "t" >>

\* "Apple___Cedar_apple_rust"
Label3 ==
    << "A", "p", "p", "l", "e", "_", "_", "_", "C", "e", "d", "a", "r", "_", "a", "p", "p",
       "l", "e", "_", "r", "u", "s", "t" >>

\* "Apple___healthy"
Label4 ==
    << "A", "p", "p", "l", "e", "_", "_", "_", "h", "e", "a", "l", "t", "h", "y" >>

\* "Blueberry___healthy"
Label5 ==
    << "B", "l", "u", "e", "b", "e", "r", "r", "y", "_", "_", "_", "h", "e", "a", "l", "t",
       "h", "y" >>

\* "Cherry_(including_sour)___Powdery_mildew"
Label6 ==
    << "C", "h", "e", "r", "r", "y", "_", "(", "i", "n", "c", "l", "u", "d", "i", "n", "g",
       "_", "s", "o", "u", "r", ")", "_", "_", "_", "P", "o", "w", "d", "e", "r", "y", "_",
       "m", "i", "l", "d", "e", "w" >>

\* "Uncertain Diagnosis"
UncertainDiagnosis ==
    << "U", "n", "c", "e", "r", "t", "a", "i", "n", " ", "D", "i", "a", "g", "n", "o", "s",
       "i", "s" >>

\* "The AI is not confident in this diagnosis (Confidence < 35%). Please ensure the image is clear, well-lit, and focused on the leaf. Try taking another photo."
UncertainAdvice ==
    << "T", "h", "e", " ", "A", "I", " ", "i", "s", " ", "n", "o", "t", " ", "c", "o", "n",
       "f", "i", "d", "e", "n", "t", " ", "i", "n", " ", "t", "h", "i", "s", " ", "d", "i",
       "a", "g", "n", "o", "s", "i", "s", " ", "(", "C", "o", "n", "f", "i", "d", "e", "n",
       "c", "e", " ", "<", " ", "3", "5", "%", ")", ".", " ", "P", "l", "e", "a", "s", "e",
       " ", "e", "n", "s", "u", "r", "e", " ", "t", "h", "e", " ", "i", "m", "a", "g", "e",
       " ", "i", "s", " ", "c", "l", "e", "a", "r", ",", " ", "w", "e", "l", "l", "-", "l",
       "i", "t", ",", " ", "a", "n", "d", " ", "f", "o", "c", "u", "s", "e", "d", " ", "o",
       "n", " ", "t", "h", "e", " ", "l", "e", "a", "f", ".", " ", "T", "r", "y", " ", "t",
       "a", "k", "i", "n", "g", " ", "a", "n", "o", "t", "h", "e", "r", " ", "p", "h", "o",
       "t", "o", "." >>

\* "Ambiguous: "
AmbiguousPrefix ==
    << "A", "m", "b", "i", "g", "u", "o", "u", "s", ":", " " >>

\* " or "
OrInfix ==
    << " ", "o", "r", " " >>

\* "The model is unsure between "
UnsurePrefix ==
    << "T", "h", "e", " ", "m", "o", "d", "e", "l", " ", "i", "s", " ", "u", "n", "s", "u",
       "r", "e", " ", "b", "e", "t", "w", "e", "e", "n", " " >>

\* " and "
AndInfix ==
    << " ", "a", "n", "d", " " >>

\* ". Please compare your plant with reference images for both conditions."
CompareSuffix ==
    << ".", " ", "P", "l", "e", "a", "s", "e", " ", "c", "o", "m", "p", "a", "r", "e", " ",
       "y", "o", "u", "r", " ", "p", "l", "a", "n", "t", " ", "w", "i", "t", "h", " ", "r",
       "e", "f", "e", "r", "e", "n", "c", "e", " ", "i", "m", "a", "g", "e", "s", " ", "f",
       "o", "r", " ", "b", "o", "t", "h", " ", "c", "o", "n", "d", "i", "t", "i", "o", "n",
       "s", "." >>

\* "The plant is healthy!"
HealthyAdvice ==
    << "T", "h", "e", " ", "p", "l", "a", "n", "t", " ", "i", "s", " ", "h", "e", "a", "l",
       "t", "h", "y", "!" >>

\* "AI advice unavailable."
AdviceUnavailable ==
    << "A", "I", " ", "a", "d", "v", "i", "c", "e", " ", "u", "n", "a", "v", "a", "i", "l",
       "a", "b", "l", "e", "." >>

\* "healthy"
HealthyWord ==
    << "h", "e", "a", "l", "t", "h", "y" >>

\* "YES"
YesWord ==
    << "Y", "E", "S" >>

\* "ABCDEFGHIJKLMNOPQRSTUVWXYZ"
UpperAlphabet ==
    << "A", "B", "C", "D", "E", "F", "G", "H", "I", "J", "K", "L", "M", "N", "O", "P", "Q",
       "R", "S", "T", "U", "V", "W", "X", "Y", "Z" >>

\* "abcdefghijklmnopqrstuvwxyz"
LowerAlphabet ==
    << "a", "b", "c", "d", "e", "f", "g", "h", "i", "j", "k", "l", "m", "n", "o", "p", "q",
       "r", "s", "t", "u", "v", "w", "x", "y", "z" >>

\* The catalog, main.py CLASS_LABELS: its first entries, in catalog order.
CLASS_LABELS == << Label1, Label2, Label3, Label4, Label5, Label6 >>

Classes == 1..NumClasses

None == "None"

\* Characters str.strip() removes.
Whitespace == {" ", "\n", "\t", "\r"}

\* str.lower() / str.upper() of one character.
LowerChar(c) ==
    IF \E k \in 1..26 : UpperAlphabet[k] = c
    THEN LowerAlphabet[CHOOSE k \in 1..26 : UpperAlphabet[k] = c]
    ELSE c

UpperChar(c) ==
    IF \E k \in 1..26 : LowerAlphabet[k] = c
    THEN UpperAlphabet[CHOOSE k \in 1..26 : LowerAlphabet[k] = c]
    ELSE c

Lower(s) == [k \in 1..Len(s) |-> LowerChar(s[k])]

Upper(s) == [k \in 1..Len(s) |-> UpperChar(s[k])]

\* str.strip(): drop leading, then trailing, whitespace.
RECURSIVE LStrip(_)
LStrip(s) ==
    IF s # << >> /\ Head(s) \in Whitespace THEN LStrip(Tail(s)) ELSE s

RECURSIVE RStrip(_)
RStrip(s) ==
    IF s # << >> /\ s[Len(s)] \in Whitespace
    THEN RStrip(SubSeq(s, 1, Len(s) - 1))
    ELSE s

\* The text as returned, not stripped.
StripIdentity(s) == s

\* str.strip()
Strip(s) == RStrip(LStrip(s))

\* Python's `sub in s`.
Contains(sub, s) ==
    \E k \in 0..(Len(s) - Len(sub)) : SubSeq(s, k + 1, k + Len(sub)) = sub

\* advice.replace("\n", " ")
ReplaceNewlines(s) == [k \in 1..Len(s) |-> IF s[k] = "\n" THEN " " ELSE s[k]]

\* All texts over an alphabet up to a length.
RECURSIVE TextsOfLen(_, _)
TextsOfLen(alphabet, n) ==
    IF n = 0 THEN {<< >>}
    ELSE {Append(t, c) : t \in TextsOfLen(alphabet, n - 1), c \in alphabet}

Texts(alphabet, maxLen) == UNION {TextsOfLen(alphabet, n) : n \in 0..maxLen}

\* ----------------------------------------------------------------- numbers

\* One unit of a score is 1/Scale.
Scale == 10000

\* TEMPERATURE = 2.0
TEMPERATURE == 2

\* 1e-7, the guard against log(0), in units of 1/Scale^2.
Epsilon == 10

\* Thresholds of the cascade, in units of 1/Scale.
UncertainThreshold == 3500

AmbiguousGap == 500

SuspiciousThreshold == 9900

RECURSIVE Pow(_, _)
Pow(b, n) == IF n = 0 THEN 1 ELSE b * Pow(b, n - 1)

\* Largest k in lo..hi with k^n <= x (lo^n <= x assumed).
RECURSIVE RootBetween(_, _, _, _)
RootBetween(x, n, lo, hi) ==
    IF lo >= hi THEN lo
    ELSE LET mid == (lo + hi + 1) \div 2
         IN  IF Pow(mid, n) <= x
             THEN RootBetween(x, n, mid, hi)
             ELSE RootBetween(x, n, lo, mid - 1)

RECURSIVE SumSeq(_)
SumSeq(s) == IF s = << >> THEN 0 ELSE Head(s) + SumSeq(Tail(s))

\* The classifier's possible outputs: one score per class, in units of
\* 1/Scale, non-negative and summing to 1 up to rounding.
RawVectors ==
    { [i \in Classes |-> (r[i] * Scale) \div RawTotal] :
        r \in { q \in [Classes -> 0..RawTotal] :
                  SumSeq([i \in Classes |-> q[i]]) = RawTotal } }

\* np.exp(np.log(p + 1e-7) / TEMPERATURE): the TEMPERATURE-th root of
\* p + 1e-7, in units of 1/Scale (the argument is in units of 1/Scale^2).
Softened(p) == RootBetween(p * Scale + Epsilon, TEMPERATURE, 0, 2 * Scale)

\* The scaling without its last line, the division by the sum.
RecalibrateUnnormalized(raw) == [i \in Classes |-> Softened(raw[i])]

\* preds = softened_preds / np.sum(softened_preds)
Recalibrate(raw) ==
    LET softened_preds == [i \in Classes |-> Softened(raw[i])]
        total == SumSeq(softened_preds)
    IN  [i \in Classes |-> (softened_preds[i] * Scale) \div total]

\* np.argsort(preds): any permutation putting preds in ascending order; the
\* default sort kind is not stable, so equal scores may come in any order.
ArgSorts(preds) ==
    { p \in [Classes -> Classes] :
        /\ \A i, j \in Classes : i # j => p[i] # p[j]
        /\ \A i, j \in Classes : i < j => preds[p[i]] <= preds[p[j]] }

\* s[::-1]
Reverse(s) == [k \in 1..Len(s) |-> s[Len(s) + 1 - k]]

\* order[-3:], not reversed.
Top3Ascending(order) ==
    SubSeq(order, IF Len(order) > 3 THEN Len(order) - 2 ELSE 1, Len(order))

\* order[-3:][::-1]
Top3(order) ==
    Reverse(SubSeq(order, IF Len(order) > 3 THEN Len(order) - 2 ELSE 1, Len(order)))

\* results.append({"class_name": ..., "confidence_score": ...})
Results(preds, top_3_idx) ==
    [k \in 1..Len(top_3_idx) |->
        [class_name |-> CLASS_LABELS[top_3_idx[k]],
         confidence_score |-> preds[top_3_idx[k]]]]

\* --------------------------------------------------------- the environment

\* users.csv: the registered accounts (id, email).
users ==
    << [id |-> 1, email |-> "ann@example.org"],
       [id |-> 2, email |-> "bob@example.org"] >>

\* get_user_by_email: the first row with that email, or None.
UserFound(email) == \E k \in 1..Len(users) : users[k].email = email

get_user_by_email(email) ==
    users[CHOOSE k \in 1..Len(users) :
            /\ users[k].email = email
            /\ \A j \in 1..(k - 1) : users[j].email # email]

\* The `token` query parameter: absent or empty, not a JWT this service
\* signed (jwt.decode raises), or a signed JWT with its "sub".
Tokens ==
    { [kind |-> "absent", sub |-> None], [kind |-> "invalid", sub |-> None] }
      \cup { [kind |-> "signed", sub |-> e] :
               e \in {"ann@example.org", "bob@example.org", "eve@example.org"} }

\* What the uploaded bytes are.
Uploads == {"image", "garbage"}

\* Image.open(BytesIO(contents)) raises on bytes that are no image.
Decodable(bytes) == bytes = "image"

\* A reply of the generative service: it raises, or returns a text.
Raised == [kind |-> "raise", text |-> << >>]

NoReply == [kind |-> "none", text |-> << >>]

Replies(alphabet, maxLen) ==
    {Raised} \cup { [kind |-> "text", text |-> t] : t \in Texts(alphabet, maxLen) }

GuardReplies == Replies({"Y", "e", "s", "N"}, MaxGuardLen)

AdviceReplies == Replies({"a", "\n"}, MaxAdviceLen)

\* What the file system does to the two writes of a saved request.
IoOutcomes == {"ok", "file_error", "csv_error"}

\* ------------------------------------------------------------- the handler

NoResponse ==
    [status |-> 0, detail |-> None, top_3_predictions |-> << >>, advice |-> << >>]

Failure(status, detail) ==
    [status |-> status, detail |-> detail,
     top_3_predictions |-> << >>, advice |-> << >>]

NoCalls == [guard |-> 0, classifier |-> 0, advice |-> << >>]

\* A handler that does not test the handle.
ModelMissingNever(handle) == FALSE

\* if keras_model is None
ModelMissing(handle) == handle = None

\* A guard that rejects when its call raises.
validate_is_plant_closed(reply) ==
    IF reply.kind = "raise" THEN FALSE
    ELSE Contains(YesWord, Upper(Strip(reply.text)))

\* validate_is_plant: "YES" in response.text.strip().upper(), True on any
\* exception.
validate_is_plant(reply) ==
    IF reply.kind = "raise" THEN TRUE
    ELSE Contains(YesWord, Upper(Strip(reply.text)))

\* The sanity check with its first two tests in the other order.
DecideGapFirst(top_conf, second_conf) ==
    IF top_conf - second_conf < AmbiguousGap THEN "Ambiguous"
    ELSE IF top_conf < UncertainThreshold THEN "Uncertain"
    ELSE IF top_conf > SuspiciousThreshold THEN "HighConfidence"
    ELSE "Normal"

\* The branch of the sanity check predict takes.
Decide(top_conf, second_conf) ==
    IF top_conf < UncertainThreshold THEN "Uncertain"
    ELSE IF top_conf - second_conf < AmbiguousGap THEN "Ambiguous"
    ELSE IF top_conf > SuspiciousThreshold THEN "HighConfidence"
    ELSE "Normal"

\* The composite label naming the second candidate first.
AmbiguousLabelSwapped(first, second) ==
    AmbiguousPrefix \o second \o OrInfix \o first

\* f"Ambiguous: {main_disease} or {results[1]['class_name']}"
AmbiguousLabel(first, second) ==
    AmbiguousPrefix \o first \o OrInfix \o second

\* f"The model is unsure between {A} and {B}. Please compare ..."
AmbiguousAdvice(first, second) ==
    UnsurePrefix \o first \o AndInfix \o second \o CompareSuffix

\* generate_advice: "healthy" in disease_name.lower()
IsHealthy(disease_name) == Contains(HealthyWord, Lower(disease_name))

\* An empty advice in place of the fallback text.
AdviceOnFailureEmpty == << >>

\* generate_advice: the text returned when the generator raises.
AdviceOnFailure == AdviceUnavailable

\* generate_advice past the healthy test.
GeneratedAdvice(reply) ==
    IF reply.kind = "raise" THEN AdviceOnFailure ELSE Strip(reply.text)

\* get_next_id(DIAGNOSES_CSV): 1 for a file with only its header, else the
\* last row's id plus one.
get_next_id(rows) ==
    IF Len(rows) = 0 THEN 1 ELSE rows[Len(rows)].id + 1

VARIABLES
    started,        \* the startup event has run
    keras_model,    \* the classifier handle, None until loaded
    pc,             \* where the /predict request is
    clock,          \* the time, which stamps the saved file's name
    contents,       \* the uploaded bytes
    guard_reply,    \* what the plant guard's generator did
    raw_preds,      \* keras_model.predict(...)[0]
    preds,          \* the recalibrated scores
    top_3_idx,      \* np.argsort(preds)[-3:][::-1]
    results,        \* the ranked top 3
    decision,       \* the branch of the cascade taken
    main_disease,   \* the label to save
    advice,         \* the advice to return and save
    gen_reply,      \* what the advice generator did
    calls,          \* calls made by this request to guard, classifier, generator
    response,       \* the HTTP response of the request
    diagnoses,      \* the rows of diagnoses.csv
    uploads,        \* the files in the upload directory
    schedules,      \* the rows of schedules.csv
    retired         \* the ids of the diagnosis rows deleted so far

vars ==
    << started, keras_model, pc, clock, contents, guard_reply, raw_preds, preds,
       top_3_idx, results, decision, main_disease, advice, gen_reply, calls,
       response, diagnoses, uploads, schedules, retired >>

store == << diagnoses, uploads >>

scores == << raw_preds, preds, top_3_idx >>

garden == << schedules, retired >>

\* The stores a request can find: empty, or holding what an earlier saved
\* request with an uncertain diagnosis left.
PriorStores ==
    { [diagnoses |-> << >>, uploads |-> {}, clock |-> 0],
      [diagnoses |-> << [id |-> 1, filename |-> 0,
                         disease_name |-> UncertainDiagnosis, confidence |-> 25,
                         advice |-> UncertainAdvice, timestamp |-> 0,
                         user_id |-> 1] >>,
       uploads |-> {0}, clock |-> 1] }

Init ==
    /\ started = FALSE
    /\ keras_model = None
    /\ pc = "idle"
    /\ contents = None
    /\ guard_reply = NoReply
    /\ raw_preds = << >>
    /\ preds = << >>
    /\ top_3_idx = << >>
    /\ results = << >>
    /\ decision = None
    /\ main_disease = << >>
    /\ advice = << >>
    /\ gen_reply = NoReply
    /\ calls = NoCalls
    /\ response = NoResponse
    /\ schedules = << >>
    /\ retired = {}
    /\ \E prior \in PriorStores :
          /\ diagnoses = prior.diagnoses
          /\ uploads = prior.uploads
          /\ clock = prior.clock

\* load_model, on the startup event: a failure is printed and swallowed.
Startup(loaded) ==
    /\ ~started
    /\ started' = TRUE
    /\ keras_model' = IF loaded THEN "keras_model" ELSE None
    /\ UNCHANGED << pc, clock, contents, guard_reply, scores, results, decision,
                    main_disease, advice, gen_reply, calls, response, store >>
    /\ UNCHANGED garden

\* predict, up to the first await of the plant guard.
PredictBegin(bytes) ==
    /\ started
    /\ pc = "idle"
    /\ IF ModelMissing(keras_model)
       THEN /\ contents' = None
            /\ response' = Failure(500, "Model not loaded")
            /\ pc' = "done"
       ELSE /\ contents' = bytes
            /\ IF Decodable(bytes)
               THEN /\ response' = NoResponse
                    /\ pc' = "validate"
               ELSE \* the exception of Image.open is not handled
                    /\ response' = Failure(500, "Internal Server Error")
                    /\ pc' = "done"
    /\ UNCHANGED << started, keras_model, clock, guard_reply, scores, results,
                    decision, main_disease, advice, gen_reply, calls, store >>
    /\ UNCHANGED garden

\* await validate_is_plant(image)
ValidateIsPlant(reply) ==
    /\ pc = "validate"
    /\ guard_reply' = reply
    /\ calls' = [calls EXCEPT !.guard = @ + 1]
    /\ IF validate_is_plant(reply)
       THEN /\ pc' = "classify"
            /\ UNCHANGED response
       ELSE /\ pc' = "done"
            /\ response' = Failure(400, "Invalid Image: Not a plant.")
    /\ UNCHANGED << started, keras_model, clock, contents, scores, results,
                    decision, main_disease, advice, gen_reply, store >>
    /\ UNCHANGED garden

\* preds = keras_model.predict(processed, verbose=0)[0]
Classify(raw) ==
    /\ pc = "classify"
    /\ raw_preds' = raw
    /\ calls' = [calls EXCEPT !.classifier = @ + 1]
    /\ guard_reply' = NoReply
    /\ pc' = "recalibrate"
    /\ UNCHANGED << started, keras_model, clock, contents, preds, top_3_idx,
                    results, decision, main_disease, advice, gen_reply, response,
                    store >>
    /\ UNCHANGED garden

\* Temperature scaling.
RecalibrateStep ==
    /\ pc = "recalibrate"
    /\ preds' = Recalibrate(raw_preds)
    /\ pc' = "rank"
    /\ UNCHANGED << started, keras_model, clock, contents, guard_reply, raw_preds,
                    top_3_idx, results, decision, main_disease, advice, gen_reply,
                    calls, response, store >>
    /\ UNCHANGED garden

\* top_3_idx, results and main_disease.
Rank(order) ==
    /\ pc = "rank"
    /\ top_3_idx' = Top3(order)
    /\ results' = Results(preds, Top3(order))
    /\ main_disease' = CLASS_LABELS[Top3(order)[1]]
    /\ pc' = "cascade"
    /\ UNCHANGED << started, keras_model, clock, contents, guard_reply, raw_preds,
                    preds, decision, advice, gen_reply, calls, response, store >>
    /\ UNCHANGED garden

RankStep == pc = "rank" /\ \E order \in ArgSorts(preds) : Rank(order)

\* The sanity check, up to the await inside generate_advice.
Cascade ==
    /\ pc = "cascade"
    /\ LET top_conf == results[1].confidence_score
           second_conf == IF Len(results) > 1 THEN results[2].confidence_score ELSE 0
           branch == Decide(top_conf, second_conf)
       IN  /\ decision' = branch
           /\ IF branch = "Uncertain"
              THEN /\ main_disease' = UncertainDiagnosis
                   /\ advice' = UncertainAdvice
                   /\ pc' = "save"
              ELSE IF branch = "Ambiguous"
              THEN /\ main_disease' = AmbiguousLabel(main_disease, results[2].class_name)
                   /\ advice' = AmbiguousAdvice(results[1].class_name, results[2].class_name)
                   /\ pc' = "save"
              ELSE IF IsHealthy(main_disease)
              THEN /\ advice' = HealthyAdvice
                   /\ pc' = "save"
                   /\ UNCHANGED main_disease
              ELSE /\ pc' = "advise"
                   /\ UNCHANGED << main_disease, advice >>
    /\ raw_preds' = << >>
    /\ preds' = << >>
    /\ top_3_idx' = << >>
    /\ UNCHANGED << started, keras_model, clock, contents, guard_reply, results,
                    gen_reply, calls, response, store >>
    /\ UNCHANGED garden

\* generate_advice: await model.generate_content_async(prompt)
GenerateAdvice(reply) ==
    /\ pc = "advise"
    /\ gen_reply' = reply
    /\ calls' = [calls EXCEPT !.advice = Append(@, main_disease)]
    /\ advice' = GeneratedAdvice(reply)
    /\ pc' = "save"
    /\ UNCHANGED << started, keras_model, clock, contents, guard_reply, scores,
                    results, decision, main_disease, response, store >>
    /\ UNCHANGED garden

\* f"{results[0]['confidence_score']:.2f}", in hundredths.
ConfidenceStr(score) == (score + Scale \div 200) \div (Scale \div 100)

\* The row with the advice written as it is.
DiagnosisRowRaw(new_id, now, disease_name, confidence, text, user_id) ==
    [id |-> new_id, filename |-> now, disease_name |-> disease_name,
     confidence |-> confidence, advice |-> text, timestamp |-> now,
     user_id |-> user_id]

\* The row predict appends to diagnoses.csv; the file's name and the row's
\* timestamp are both taken from the clock.
DiagnosisRow(new_id, now, disease_name, confidence, text, user_id) ==
    [id |-> new_id, filename |-> now, disease_name |-> disease_name,
     confidence |-> confidence, advice |-> ReplaceNewlines(text),
     timestamp |-> now, user_id |-> user_id]

\* if save and token: ... ; return {"top_3_predictions": results, "advice": advice}
Save(save, token, io) ==
    /\ pc = "save"
    /\ IF /\ save
          /\ token.kind = "signed"
          /\ UserFound(token.sub)
          /\ io # "file_error"
       THEN /\ uploads' = uploads \cup {clock}
            /\ clock' = clock + 1
            /\ IF io = "ok"
               THEN diagnoses' =
                        Append(diagnoses,
                               DiagnosisRow(get_next_id(diagnoses), clock, main_disease,
                                            ConfidenceStr(results[1].confidence_score),
                                            advice, get_user_by_email(token.sub).id))
               ELSE UNCHANGED diagnoses
       ELSE UNCHANGED << store, clock >>
    /\ response' =
           [status |-> 200, detail |-> None,
            top_3_predictions |-> results, advice |-> advice]
    /\ pc' = "done"
    /\ UNCHANGED << started, keras_model, contents, guard_reply, scores, results,
                    decision, main_disease, advice, gen_reply, calls >>
    /\ UNCHANGED garden

Next ==
    \/ \E loaded \in BOOLEAN : Startup(loaded)
    \/ \E bytes \in Uploads : PredictBegin(bytes)
    \/ \E reply \in GuardReplies : ValidateIsPlant(reply)
    \/ \E raw \in RawVectors : Classify(raw)
    \/ RecalibrateStep
    \/ RankStep
    \/ Cascade
    \/ \E reply \in AdviceReplies : GenerateAdvice(reply)
    \/ \E save \in BOOLEAN, token \in Tokens, io \in IoOutcomes : Save(save, token, io)

Spec == Init /\ [][Next]_vars

\* ---------------------------------------------- the garden: saved diagnoses

\* The account a request is authenticated as (get_current_user).
UserIds == {users[k].id : k \in 1..Len(users)}

\* water_interval_days of a ScheduleCreate.
WaterIntervals == {3, 7}

\* The rows of diagnoses.csv a DELETE /diagnoses/{diagnosis_id} of this user
\* removes.
Deleted(row, diagnosis_id, user_id) ==
    row.id = diagnosis_id /\ row.user_id = user_id

\* delete_diagnosis: the rows of the user with that id are dropped and the
\* file of the last of them is removed; 404 when there is none.
DeleteDiagnosis(diagnosis_id, user_id) ==
    /\ started
    /\ pc \in {"idle", "validate"}
    /\ \E k \in 1..Len(diagnoses) : Deleted(diagnoses[k], diagnosis_id, user_id)
    /\ LET last == CHOOSE k \in 1..Len(diagnoses) :
                      /\ Deleted(diagnoses[k], diagnosis_id, user_id)
                      /\ \A j \in (k + 1)..Len(diagnoses) :
                            ~Deleted(diagnoses[j], diagnosis_id, user_id)
           Kept(row) == ~Deleted(row, diagnosis_id, user_id)
       IN  /\ diagnoses' = SelectSeq(diagnoses, Kept)
           /\ uploads' = uploads \ {diagnoses[last].filename}
    /\ retired' = retired \cup {diagnosis_id}
    /\ UNCHANGED << started, keras_model, pc, clock, contents, guard_reply, scores,
                    results, decision, main_disease, advice, gen_reply, calls,
                    response, schedules >>

\* create_schedule: the rows of the user for that diagnosis_id get the new
\* interval; when there is none a row is appended. The diagnosis itself is
\* not looked up.
CreateSchedule(diagnosis_id, water_interval_days, user_id) ==
    /\ started
    /\ pc \in {"idle", "validate"}
    /\ LET Matches(row) == row.diagnosis_id = diagnosis_id /\ row.user_id = user_id
       IN  IF \E k \in 1..Len(schedules) : Matches(schedules[k])
           THEN schedules' =
                    [k \in 1..Len(schedules) |->
                        IF Matches(schedules[k])
                        THEN [schedules[k] EXCEPT
                                 !.water_interval_days = water_interval_days]
                        ELSE schedules[k]]
           ELSE /\ Len(schedules) < MaxSchedules
                /\ schedules' =
                       Append(schedules,
                              [id |-> get_next_id(schedules),
                               diagnosis_id |-> diagnosis_id,
                               user_id |-> user_id,
                               water_interval_days |-> water_interval_days,
                               last_watered_date |-> clock])
    /\ UNCHANGED << started, keras_model, pc, clock, contents, guard_reply, scores,
                    results, decision, main_disease, advice, gen_reply, calls,
                    response, store, retired >>

\* predict returns: the response is sent and the request's locals are gone.
Respond ==
    /\ pc = "done"
    /\ pc' = "idle"
    /\ contents' = None
    /\ guard_reply' = NoReply
    /\ results' = << >>
    /\ decision' = None
    /\ main_disease' = << >>
    /\ advice' = << >>
    /\ gen_reply' = NoReply
    /\ calls' = NoCalls
    /\ response' = NoResponse
    /\ UNCHANGED << started, keras_model, clock, scores, store, garden >>

\* The photo uploaded in the garden: one the classifier is unsure about, so
\* that no advice is generated.
GardenRaw ==
    CHOOSE raw \in RawVectors :
        \A i \in Classes : Recalibrate(raw)[i] < UncertainThreshold

\* What the plant guard does in the garden: its call raises, or it says no.
GardenGuardReplies == {Raised, [kind |-> "text", text |-> << "N" >>]}

GardenInit == Init /\ diagnoses = << >>

GardenNext ==
    \/ \E loaded \in BOOLEAN : Startup(loaded)
    \/ \E bytes \in Uploads : clock < MaxSaves /\ PredictBegin(bytes)
    \/ \E reply \in GardenGuardReplies : ValidateIsPlant(reply)
    \/ Classify(GardenRaw)
    \/ RecalibrateStep
    \/ RankStep
    \/ Cascade
    \/ \E save \in BOOLEAN, token \in Tokens, io \in IoOutcomes : Save(save, token, io)
    \/ Respond
    \/ \E diagnosis_id \in 1..MaxSaves, user_id \in UserIds :
          DeleteDiagnosis(diagnosis_id, user_id)
    \/ \E diagnosis_id \in 1..MaxSaves, days \in WaterIntervals, user_id \in UserIds :
          CreateSchedule(diagnosis_id, days, user_id)

\* The service with its garden endpoints, one photo uploaded again and again.
GardenSpec == GardenInit /\ [][GardenNext]_vars

\* ------------------------------------------------------------------ claims

\* The cascade has run: its inputs are in `results`, its outcome is final.
Decided == pc \in {"advise", "save", "done"} /\ results # << >>

TopConf == results[1].confidence_score

SecondConf == results[2].confidence_score

\* Two characters equal up to letter case.
SameLetter(c, d) ==
    \/ c = d
    \/ \E k \in 1..26 : {c, d} = {UpperAlphabet[k], LowerAlphabet[k]}

\* `word` occurs in `s`, letter case ignored.
OccursCaseless(word, s) ==
    \E k \in 0..(Len(s) - Len(word)) :
        \A j \in 1..Len(word) : SameLetter(s[k + j], word[j])

\* `t` is `s` without its leading and trailing whitespace.
IsTrimOf(t, s) ==
    \E i \in 0..Len(s) : \E j \in i..Len(s) :
        /\ t = SubSeq(s, i + 1, j)
        /\ \A k \in 1..i : s[k] \in Whitespace
        /\ \A k \in (j + 1)..Len(s) : s[k] \in Whitespace
        /\ t # << >> => (t[1] \notin Whitespace /\ t[Len(t)] \notin Whitespace)

\* C1: whenever the top recalibrated score is below 0.35 the decision is
\* Uncertain whatever the second score is: the label is the sentinel
\* "Uncertain Diagnosis", the advice is the fixed clearer-photo text (also in
\* the response), and the advice generator has not been called.
C1_UncertainFirst ==
    (Decided /\ TopConf < UncertainThreshold) =>
        /\ pc # "advise"
        /\ decision = "Uncertain"
        /\ main_disease = UncertainDiagnosis
        /\ advice = UncertainAdvice
        /\ calls.advice = << >>
        /\ pc = "done" => (response.status = 200 /\ response.advice = UncertainAdvice)

\* A finished request whose top score is below 0.35 with a gap below 0.05.
C1_Witness ==
    /\ pc = "done"
    /\ response.status = 200
    /\ TopConf < UncertainThreshold
    /\ TopConf - SecondConf < AmbiguousGap

\* C2: whenever the top score is at least 0.35 and the gap to the second is
\* below 0.05 the decision is Ambiguous: the label is "Ambiguous: A or B" and
\* the advice the comparison text, both naming the first and the second
\* ranked class in that order, and the advice generator has not been called;
\* with a gap of 0.05 or more the decision is never Ambiguous.
C2_Ambiguous ==
    Decided =>
        /\ (TopConf >= UncertainThreshold /\ TopConf - SecondConf < AmbiguousGap) =>
              /\ pc # "advise"
              /\ decision = "Ambiguous"
              /\ main_disease =
                    AmbiguousPrefix \o results[1].class_name \o OrInfix
                        \o results[2].class_name
              /\ advice =
                    UnsurePrefix \o results[1].class_name \o AndInfix
                        \o results[2].class_name \o CompareSuffix
              /\ calls.advice = << >>
              /\ pc = "done" => (response.status = 200 /\ response.advice = advice)
        /\ TopConf - SecondConf >= AmbiguousGap => decision # "Ambiguous"

\* A finished Ambiguous request whose top score alone passes the 0.35 test.
C2_Witness ==
    /\ pc = "done"
    /\ response.status = 200
    /\ decision = "Ambiguous"
    /\ TopConf >= UncertainThreshold
    /\ results[1].class_name # results[2].class_name

\* C3: with a top score of at least 0.35 and a gap of at least 0.05 the
\* branch is Normal or HighConfidence and the label is the top class's
\* catalog name; if that name contains "healthy" (case ignored) the advice is
\* the fixed positive message and the generator is not called; otherwise the
\* generator is called once, with that label, and the text it returns,
\* trimmed of surrounding whitespace, is the advice.
C3_NormalBranch ==
    (Decided /\ TopConf >= UncertainThreshold /\ TopConf - SecondConf >= AmbiguousGap) =>
        /\ decision \in {"Normal", "HighConfidence"}
        /\ main_disease = results[1].class_name
        /\ \E i \in Classes : main_disease = CLASS_LABELS[i]
        /\ IF OccursCaseless(HealthyWord, main_disease)
           THEN /\ pc # "advise"
                /\ advice = HealthyAdvice
                /\ calls.advice = << >>
           ELSE pc # "advise" =>
                   /\ calls.advice = << main_disease >>
                   /\ gen_reply.kind = "text" => IsTrimOf(advice, gen_reply.text)
        /\ pc = "done" => (response.status = 200 /\ response.advice = advice)

\* A finished Normal request whose generator text had whitespace to trim.
C3_Witness ==
    /\ pc = "done"
    /\ decision = "Normal"
    /\ gen_reply.kind = "text"
    /\ advice # << >>
    /\ advice # gen_reply.text

\* A finished request on a healthy label: fixed message, generator not called.
C3_HealthyReached ==
    /\ pc = "done"
    /\ decision \in {"Normal", "HighConfidence"}
    /\ advice = HealthyAdvice
    /\ calls.advice = << >>

\* C4: when the advice generator raises, the advice is the fixed fallback
\* text, the request ends with a 200 response, and the response carries the
\* fallback text and the full ranked top 3.
C4_AdviceFallback ==
    gen_reply.kind = "raise" =>
        /\ pc \in {"save", "done"}
        /\ advice = AdviceUnavailable
        /\ pc = "done" =>
              /\ response.status = 200
              /\ response.advice = AdviceUnavailable
              /\ response.top_3_predictions = results
              /\ Len(results) = 3

\* A finished request whose advice generator raised.
C4_Witness ==
    /\ pc = "done"
    /\ gen_reply.kind = "raise"
    /\ decision \in {"Normal", "HighConfidence"}
    /\ response.status = 200

\* C5: the request is rejected as not-a-plant only when the guard's call
\* returned a text without "YES" (case ignored); when the call raises, or
\* the text has "YES", the request goes on to the classifier.
C5_GuardFailsOpen ==
    /\ (response.status = 400) =
          (guard_reply.kind = "text" /\ ~OccursCaseless(YesWord, guard_reply.text))
    /\ response.status = 400 => (pc = "done" /\ calls.classifier = 0)
    /\ guard_reply.kind = "raise" => (pc = "classify" /\ response = NoResponse)
    /\ calls.classifier > 0 => calls.guard = 1

\* The guard's call raised and the request is about to run the classifier.
C5_Witness ==
    /\ guard_reply.kind = "raise"
    /\ pc = "classify"
    /\ calls.guard = 1

\* The classes left out of the top 3.
Unranked == Classes \ {top_3_idx[k] : k \in 1..Len(top_3_idx)}

Ranked == pc = "cascade"

\* C6 as claimed: the ranker returns min(3, catalog size) candidates with the
\* highest scores in descending order, and of two candidates with equal
\* scores the one with the smaller catalog index comes first, also at the
\* boundary of the top 3.
C6_TiesByIndex ==
    Ranked =>
        /\ Len(top_3_idx) = (IF NumClasses < 3 THEN NumClasses ELSE 3)
        /\ \A k, l \in 1..Len(top_3_idx) :
              k < l =>
                 /\ preds[top_3_idx[k]] >= preds[top_3_idx[l]]
                 /\ preds[top_3_idx[k]] = preds[top_3_idx[l]] =>
                       top_3_idx[k] < top_3_idx[l]
        /\ \A j \in Unranked : \A k \in 1..Len(top_3_idx) :
              /\ preds[j] <= preds[top_3_idx[k]]
              /\ preds[j] = preds[top_3_idx[k]] => top_3_idx[k] < j

\* C6, amended: the ranker returns min(3, catalog size) distinct candidates,
\* each paired with its catalog name and its score, in non-increasing order
\* of score, and no class left out scores more than a class returned.
C6_TopThree ==
    Ranked =>
        /\ Len(top_3_idx) = (IF NumClasses < 3 THEN NumClasses ELSE 3)
        /\ Len(results) = Len(top_3_idx)
        /\ \A k \in 1..Len(top_3_idx) :
              /\ top_3_idx[k] \in Classes
              /\ results[k].class_name = CLASS_LABELS[top_3_idx[k]]
              /\ results[k].confidence_score = preds[top_3_idx[k]]
        /\ \A k, l \in 1..Len(top_3_idx) :
              k < l =>
                 /\ top_3_idx[k] # top_3_idx[l]
                 /\ preds[top_3_idx[k]] >= preds[top_3_idx[l]]
        /\ \A j \in Unranked : \A k \in 1..Len(top_3_idx) :
              preds[j] <= preds[top_3_idx[k]]

\* A ranking with a tie at the boundary of the top 3 and unequal scores in it.
C6_Witness ==
    /\ Ranked
    /\ \E j \in Unranked : preds[j] = preds[top_3_idx[3]]
    /\ preds[top_3_idx[1]] > preds[top_3_idx[3]]

\* C7 as claimed: a request whose bytes are no image ends with a client
\* error (4xx) other than the not-a-plant rejection, and neither the
\* classifier nor the advice generator nor persistence has run.
C7_DecodeErrorIsClientError ==
    (pc = "done" /\ contents = "garbage") =>
        /\ response.status \in 400..499
        /\ response.detail # "Invalid Image: Not a plant."
        /\ calls.classifier = 0
        /\ calls.advice = << >>
        /\ \E prior \in PriorStores :
              diagnoses = prior.diagnoses /\ uploads = prior.uploads

\* C8 as claimed: no request is handled while the classifier handle is
\* absent.
C8_NeverServedWithoutModel ==
    pc # "idle" => keras_model # None

\* C8, amended: a failed load is swallowed and the service serves; a request
\* handled while the handle is absent ends at once with the 500 response
\* "Model not loaded", before the upload is read and before the guard, the
\* classifier, the advice generator or persistence run; and once startup
\* has run the handle never changes.
C8_ModelMissingIsPerRequest ==
    /\ [](  (pc # "idle" /\ keras_model = None) =>
               /\ pc = "done"
               /\ response = Failure(500, "Model not loaded")
               /\ contents = None
               /\ calls = NoCalls
               /\ results = << >>
               /\ \E prior \in PriorStores :
                     diagnoses = prior.diagnoses /\ uploads = prior.uploads  )
    /\ [][started => (started' /\ keras_model' = keras_model)]_vars

\* A request answered with a 500 because the load had failed at startup.
C8_Witness ==
    /\ started
    /\ keras_model = None
    /\ pc = "done"
    /\ response.status = 500

\* The last row of diagnoses.csv.
LastRow == diagnoses[Len(diagnoses)]

\* A step that writes: the upload directory or diagnoses.csv changes.
Writes == uploads' # uploads \/ diagnoses' # diagnoses

\* Every write is made by a request whose decision is final, which ends with
\* a 200 response carrying that advice; the file is written first and named
\* in the row, and a row is appended, never changed or removed.
WritesAfterDecision ==
    /\ pc = "save" /\ pc' = "done"
    /\ decision \in {"Uncertain", "Ambiguous", "Normal", "HighConfidence"}
    /\ main_disease' = main_disease /\ advice' = advice
    /\ response'.status = 200 /\ response'.advice = advice
    /\ uploads \subseteq uploads' /\ Cardinality(uploads' \ uploads) = 1
    /\ diagnoses' # diagnoses =>
          /\ Len(diagnoses') = Len(diagnoses) + 1
          /\ SubSeq(diagnoses', 1, Len(diagnoses)) = diagnoses
          /\ LastRow'.filename \in uploads' \ uploads
          /\ LastRow'.disease_name = main_disease

\* C9 as claimed: persistence happens only after the decision is final,
\* never in an aborted request, and the appended row's disease_name and
\* advice are exactly the final label and advice.
C9_RowIsDecision ==
    [][Writes =>
          /\ WritesAfterDecision
          /\ diagnoses' # diagnoses => LastRow'.advice = advice]_vars

\* C9, amended: persistence happens only after the decision is final, never
\* in an aborted request; the appended row's disease_name is exactly the
\* final label and its advice is the final advice with every newline
\* replaced by a space.
C9_RowIsDecisionOnOneLine ==
    [][Writes =>
          /\ WritesAfterDecision
          /\ diagnoses' # diagnoses =>
                /\ Len(LastRow'.advice) = Len(advice)
                /\ \A k \in 1..Len(advice) :
                      LastRow'.advice[k] = (IF advice[k] = "\n" THEN " " ELSE advice[k])]_vars

\* A saved request whose final advice had a newline inside.
C9_Witness ==
    /\ pc = "done"
    /\ response.status = 200
    /\ diagnoses # << >>
    /\ LastRow.disease_name = main_disease
    /\ LastRow.filename = clock - 1
    /\ \E k \in 1..Len(advice) : advice[k] = "\n"
    /\ LastRow.advice # advice

\* The scores are recalibrated and still beside the raw ones.
Recalibrated == pc \in {"rank", "cascade"}

C11_IdsNeverReused ==
    /\ \A k \in 1..Len(diagnoses) : diagnoses[k].id \notin retired
    /\ \A k, l \in 1..Len(diagnoses) : k # l => diagnoses[k].id # diagnoses[l].id
    /\ \A s \in 1..Len(schedules) : \A k \in 1..Len(diagnoses) :
          schedules[s].diagnosis_id \in retired =>
              diagnoses[k].id # schedules[s].diagnosis_id

\* A schedule made after a first diagnosis was saved and before the save of
\* the diagnosis of the same user that now carries its diagnosis_id, an id a
\* deleted row had.
C11_ScheduleReattached ==
    \E s \in 1..Len(schedules) : \E k \in 1..Len(diagnoses) :
        /\ schedules[s].diagnosis_id \in retired
        /\ diagnoses[k].id = schedules[s].diagnosis_id
        /\ diagnoses[k].user_id = schedules[s].user_id
        /\ schedules[s].last_watered_date >= 1
        /\ diagnoses[k].timestamp >= schedules[s].last_watered_date

=============================================================================
